---- MODULE Spec2Model ----
(***************************************************************************)
(* dwd-hf-exporter: the sequential day-range controller (run_pipeline),    *)
(* the day processor (process_single_day) with its per-file stages         *)
(* (existence check, fetch, convert, upload, cleanup), the catalog lister  *)
(* (list_hf_files_for_date) and the existence oracle (s3_key_exists).      *)
(*                                                                         *)
(* The collaborators (Hugging Face catalog and transfer, S3, the local     *)
(* file system, the converter's libraries) are the environment: each call  *)
(* to one of them either succeeds or raises, chosen nondeterministically.  *)
(***************************************************************************)
EXTENDS Integers, Sequences, FiniteSets, TLC

\* Bounds of the model.
MaxDay == 2        \* calendar days the catalog covers, from FirstDate on
MaxFiles == 2      \* entries a day's folder holds at most
MaxRuns == 2       \* consecutive runs of run_pipeline with one configuration
MaxRerunFiles == 2 \* archives in the range when the run is repeated
MaxAxis == 2       \* points a latitude or longitude axis holds at most

VARIABLES
    force,         \* run configuration: reprocess even when the key exists
    dryrun,        \* run configuration: stand-ins for fetch and upload
    local_root,    \* run configuration: local staging root
    start,         \* run configuration: first date of the range
    end,           \* run configuration: last date of the range
    catalog,       \* the remote repository: date -> entries of data/y/m/d
    store,         \* the destination bucket: the set of keys it holds
    localfs,       \* the local file system: set of [path, content]
    pc,            \* position of the (single) thread of control
    date,          \* run_pipeline: the loop variable
    results,       \* run_pipeline: the report
    hf_files,      \* process_single_day: the listing of the day
    day_results,   \* process_single_day: the outcomes of the day
    idx,           \* process_single_day: position of remote_path in hf_files
    downloaded_path, \* process_single_day: what the fetch stage returned
    converted_path,  \* process_single_day: what converter.extract returned
    key_present,   \* whether the file's key was in the store when its turn came
    grid,          \* the repository's archives: their latitude and longitude axes
    temp_dir,      \* converter.extract: the temporary directory of the last call
    key_log,       \* <<call, key>> of the store calls made for the current file
    calls,         \* collaborator calls made for the current file, in order
    raised,        \* the call whose exception left run_pipeline, or "none"
    listed,        \* every file a listing of this run returned, in order
    visited,       \* dates process_single_day was invoked for, in order
    run,           \* number of the current run
    prev_ok        \* files whose outcome was OK in the previous run

vars == <<force, dryrun, local_root, start, end, catalog, store, localfs, pc,
          date, results, hf_files, day_results, idx, downloaded_path,
          converted_path, key_present, grid, temp_dir, key_log, calls, raised,
          listed, visited, run, prev_ok>>

config == <<force, dryrun, local_root, start, end, catalog, grid>>
fileVars == <<downloaded_path, converted_path>>

----------------------------------------------------------------------------
\* Calendar: datetime values at midnight, datetime + timedelta(days=1).

FirstDate == [y |-> 2025, m |-> 9, d |-> 30]

IsLeap(y) == (y % 4 = 0 /\ y % 100 # 0) \/ y % 400 = 0

DaysInMonth(y, m) ==
    IF m = 2 THEN (IF IsLeap(y) THEN 29 ELSE 28)
    ELSE IF m \in {4, 6, 9, 11} THEN 30 ELSE 31

\* date += timedelta(days=1)
NextDay(dt) ==
    IF dt.d < DaysInMonth(dt.y, dt.m) THEN [dt EXCEPT !.d = dt.d + 1]
    ELSE IF dt.m < 12 THEN [y |-> dt.y, m |-> dt.m + 1, d |-> 1]
    ELSE [y |-> dt.y + 1, m |-> 1, d |-> 1]

\* date <= end
DateLE(a, b) ==
    \/ a.y < b.y
    \/ a.y = b.y /\ a.m < b.m
    \/ a.y = b.y /\ a.m = b.m /\ a.d <= b.d

RECURSIVE DateAt(_)
DateAt(n) == IF n = 0 THEN FirstDate ELSE NextDay(DateAt(n - 1))

Dates == {DateAt(n) : n \in 0..(MaxDay - 1)}

----------------------------------------------------------------------------
\* Names, paths and keys.  A file name is a stem and a suffix.

ArchiveExt == ".zarr.zip"
ConvertedExt == ".nc"
OtherExt == ".txt"

Names == [stem : 1..MaxFiles, ext : {ArchiveExt, OtherExt}]

\* node.path.endswith(".zarr.zip")
IsArchive(name) == name.ext = ArchiveExt

\* filename.replace(".zarr.zip", ".nc")
ConvertedName(name) ==
    IF name.ext = ArchiveExt THEN [name EXCEPT !.ext = ConvertedExt] ELSE name

\* f"{n}": the decimal digits of n, most significant first
RECURSIVE Digits(_)
Digits(n) == IF n < 10 THEN <<n>> ELSE Digits(n \div 10) \o <<n % 10>>

\* (a variant of Pad2: the number is written without padding)
Pad2Unpadded(n) == Digits(n)

\* f"{n:02d}"
Pad2(n) == IF n < 10 THEN <<0, n>> ELSE Digits(n)

\* folder_path = f"data/{yyyy}/{mm}/{dd}"; a node's path is folder_path/name
RemotePath(dt, name) ==
    [root |-> "data", dir |-> <<Digits(dt.y), Digits(dt.m), Digits(dt.d)>>,
     name |-> name]

\* os.path.join(os.path.join(local_root, f"{yyyy}/{mm}/{dd}"), filename)
LocalPath(root, dt, name) ==
    [root |-> root, dir |-> <<Digits(dt.y), Digits(dt.m), Digits(dt.d)>>,
     name |-> name]

\* hf_hub_download(filename=remote_path, local_dir="./"): ./<remote_path>
DownloadPath(remote_path) == remote_path

\* converted_s3_key = f"{s3_prefix}/{yyyy}/{mm:02d}/{dd:02d}/{converted_filename}"
S3Key(dt, name) ==
    [prefix |-> "s3_prefix", dir |-> <<Digits(dt.y), Pad2(dt.m), Pad2(dt.d)>>,
     name |-> ConvertedName(name)]

LocalRoots == {"data", "staging"}

\* The listings a folder can hold: entries 1..n in order, each an archive or not.
Listings ==
    UNION {{s \in [1..n -> Names] : \A k \in 1..n : s[k].stem = k} :
           n \in 0..MaxFiles}

AllKeys == {S3Key(dt, [stem |-> k, ext |-> ArchiveExt]) :
            dt \in Dates, k \in 1..MaxFiles}

\* The part of the environment a run over [a, b] can read: the folders of the
\* dates of the range and the keys of their archives.  The rest is left empty.
InRange(a, b, dt) == DateLE(a, dt) /\ DateLE(dt, b)

KeysOf(a, b, cat) ==
    UNION {{S3Key(dt, cat[dt][k]) :
               k \in {j \in 1..Len(cat[dt]) : IsArchive(cat[dt][j])}} :
           dt \in {x \in Dates : InRange(a, b, x)}}

NoPath == [root |-> "none", dir |-> <<>>, name |-> [stem |-> 0, ext |-> ""]]

----------------------------------------------------------------------------
\* The local file system.

Exists(fs, path) == \E f \in fs : f.path = path

ContentOf(fs, path) == (CHOOSE f \in fs : f.path = path).content

\* open(path, "w") / a completed download / to_netcdf: create or replace
WriteFile(fs, path, content) ==
    {f \in fs : f.path # path} \cup {[path |-> path, content |-> content]}

\* os.remove(path)
RemoveFile(fs, path) == {f \in fs : f.path # path}

----------------------------------------------------------------------------
\* The collaborators' answers.

\* s3.head_object(Bucket, Key): 200, or a ClientError carrying the HTTP status
\* (404 not found, 403 access denied / bad credentials), or an error raised
\* before any response (EndpointConnectionError, NoCredentialsError: these
\* are BotoCoreError, not ClientError).
HeadResponses(bucket, key) ==
    (IF key \in bucket THEN {"200"} ELSE {"404"}) \cup {"403", "unreachable"}

\* s3_key_exists: True on a response, False on ClientError, else the error
\* propagates.
S3KeyExists(resp) ==
    CASE resp = "200" -> "true"
      [] resp \in {"404", "403"} -> "false"
      [] OTHER -> "raise"

\* (a variant of ConsultsStore: the existence check is made whatever force is)
ConsultsStoreAlways(f) == TRUE

\* if not force and s3_key_exists(...): the call is made only when not force
ConsultsStore(f) == ~f

\* (a variant of StageFailed: the stage's exception is swallowed and the loop
\* body falls through to the next stage)
StageFailedIgnored(resp) == FALSE

\* try: <stage> except Exception: append the failure outcome and continue
StageFailed(resp) == resp # "ok"

\* api.list_repo_tree(...) raises when called, raises while the generator is
\* consumed, or yields the folder's entries.
ListResponses == {"ok", "raise_at_call", "raise_at_iter"}

\* files = [node.path for node in tree if node.path.endswith(".zarr.zip")]
ArchivePaths(dt, entries) ==
    LET kept == SelectSeq(entries, IsArchive)
    IN  [k \in 1..Len(kept) |-> RemotePath(dt, kept[k])]

\* list_hf_files_for_date: "raise" when the exception leaves the function
ListHfFilesForDate(dt, resp) ==
    CASE resp = "raise_at_call" -> [raise |-> FALSE, files |-> <<>>]
      [] resp = "raise_at_iter" -> [raise |-> TRUE, files |-> <<>>]
      [] OTHER -> [raise |-> FALSE, files |-> ArchivePaths(dt, catalog[dt])]

\* output_path = input_path.parent / input_path.name.replace(".zarr.zip", ".nc")
OutputPath(path) == [path EXCEPT !.name = ConvertedName(path.name)]

----------------------------------------------------------------------------
\* The converter.  Coordinates are in tenths of a degree.

\* lat_min, lat_max = 45.7, 46.4; lon_min, lon_max = 10.5, 11.9
lat_min == 457
lat_max == 464
lon_min == 105
lon_max == 119

\* Coordinate values an axis can hold: below, on the edges of, inside and
\* above the window.
LatValues == {lat_min - 1, lat_min, lat_min + 3, lat_max, lat_max + 1}
LonValues == {lon_min - 1, lon_min + 5, lon_max + 1}

Reverse(s) == [k \in 1..Len(s) |-> s[Len(s) + 1 - k]]

\* pandas Index.is_monotonic_increasing / is_monotonic_decreasing
IsMonotonicIncreasing(axis) ==
    \A k \in 1..(Len(axis) - 1) : axis[k] <= axis[k + 1]

IsMonotonicDecreasing(axis) ==
    \A k \in 1..(Len(axis) - 1) : axis[k] >= axis[k + 1]

\* A regular grid's axis: 1..MaxAxis distinct values, rising or falling.
Axes(values) ==
    {a \in UNION {[1..n -> values] : n \in 1..MaxAxis} :
        /\ \A i, j \in 1..Len(a) : i # j => a[i] # a[j]
        /\ IsMonotonicIncreasing(a) \/ IsMonotonicDecreasing(a)}

Grids == [lat : Axes(LatValues), lon : Axes(LonValues)]

\* numpy searchsorted on a rising array: the 0-based insertion position
SearchSorted(axis, label, side) ==
    Cardinality({k \in 1..Len(axis) :
                    IF side = "left" THEN axis[k] < label ELSE axis[k] <= label})

\* pandas Index._searchsorted_monotonic: the rising test comes first; a
\* falling index is searched reversed with the other side
SearchSortedMonotonic(axis, label, side) ==
    IF IsMonotonicIncreasing(axis)
    THEN SearchSorted(axis, label, side)
    ELSE Len(axis) - SearchSorted(Reverse(axis), label,
                                  IF side = "left" THEN "right" ELSE "left")

\* pandas Index.slice_locs(start, stop): <<start, end>>, 0-based, end excluded
SliceLocs(axis, first, last) ==
    <<SearchSortedMonotonic(axis, first, "left"),
      SearchSortedMonotonic(axis, last, "right")>>

\* ds.sel(dim=slice(first, last)): the points axis[start:end]
Sel(axis, first, last) ==
    LET locs == SliceLocs(axis, first, last)
    IN  SubSeq(axis, locs[1] + 1, locs[2])

\* (a variant of SelectLatitude: the window is always sliced low to high)
SelectLatitudeAscending(lat) == Sel(lat, lat_min, lat_max)

\* if ds.latitude.values[0] < ds.latitude.values[-1]: slice(lat_min, lat_max)
\* else: slice(lat_max, lat_min)
SelectLatitude(lat) ==
    IF lat[1] < lat[Len(lat)]
    THEN Sel(lat, lat_min, lat_max)
    ELSE Sel(lat, lat_max, lat_min)

\* longitude=slice(lon_min, lon_max), in both branches
SelectLongitude(lon) == Sel(lon, lon_min, lon_max)

\* ds_bbox.sizes.get("latitude", 0) == 0 or ds_bbox.sizes.get("longitude", 0) == 0
EmptySubset(g) ==
    Len(SelectLatitude(g.lat)) = 0 \/ Len(SelectLongitude(g.lon)) = 0

\* What the converter's own collaborators do in one call: tempfile.mkdtemp,
\* zipfile (a corrupt archive), xarray.open_zarr/load, to_netcdf, shutil.rmtree.
ExtractEnvs ==
    [mkdtemp : BOOLEAN, unzip : BOOLEAN, open : BOOLEAN, write : BOOLEAN,
     rmtree : BOOLEAN]

\* (a variant of ExtractBody: the subset is written without the empty check)
ExtractBodyUnchecked(content, g, env) ==
    IF content # "archive" \/ ~env.unzip THEN "bad_zip"
    ELSE IF ~env.open THEN "open_failed"
    ELSE IF ~env.write THEN "write_failed"
    ELSE "ok"

\* The first step of the try block that raises, or "ok".
ExtractBody(content, g, env) ==
    IF content # "archive" \/ ~env.unzip THEN "bad_zip"
    ELSE IF ~env.open THEN "open_failed"
    ELSE IF EmptySubset(g) THEN "empty_subset"
    ELSE IF ~env.write THEN "write_failed"
    ELSE "ok"

\* (a variant of Finally: the directory is removed on the returning path only)
FinallyOnReturnOnly(resp, env) ==
    IF resp # "ok" THEN "leaked"
    ELSE IF env.rmtree THEN "removed" ELSE "rmtree_failed"

\* finally: shutil.rmtree(temp_dir, ignore_errors=True), on every way out of
\* the try block; a removal that fails is ignored and leaves the directory
Finally(resp, env) == IF env.rmtree THEN "removed" ELSE "rmtree_failed"

\* converter.extract(filepath) on a file of the given content holding the
\* grid g: what the call answers ("ok": the path is returned, the output is
\* written; else it raises) and what became of its temporary directory.
\* mkdtemp is called before the try block.
Extract(content, g, env) ==
    IF ~env.mkdtemp
    THEN [resp |-> "mkdtemp_failed", temp_dir |-> "none"]
    ELSE LET resp == ExtractBody(content, g, env)
         IN  [resp |-> resp, temp_dir |-> Finally(resp, env)]

\* The answers converter.extract can give on such a file.
ExtractResponses(content) ==
    {Extract(content, grid, env).resp : env \in ExtractEnvs}

\* The grids of the runs over whole catalogs: one covering the window, with
\* latitude falling as in ICON-EU, and one that misses it.
GridOverWindow == [lat |-> <<lat_max, lat_min>>, lon |-> <<lon_min + 5>>]
GridOffWindow == [lat |-> <<lat_max + 1>>, lon |-> <<lon_min + 5>>]
PipelineGrids == {GridOverWindow, GridOffWindow}

----------------------------------------------------------------------------
\* The stage switches and the store.

\* (a variant of RealFetch: the transfer is made in a dry run too)
RealFetchAlways(dry) == TRUE

\* if not dryrun: downloaded_path = hf_hub_download(...)
RealFetch(dry) == ~dry

\* if not dryrun: upload_to_s3(...)
RealStore(dry) == ~dry

\* (a variant of PutObject: the bucket is emptied before the key is stored)
PutObjectAlone(bucket, key) == {key}

\* s3.upload_file(local_path, bucket, key)
PutObject(bucket, key) == bucket \cup {key}

\* (a variant of CatchesOSError: the removal's error is not caught)
CatchesNothing(resp) == FALSE

\* except OSError: pass
CatchesOSError(resp) == resp = "raise"

----------------------------------------------------------------------------
\* run_pipeline is entered: nothing fetched, nothing reported yet.
InitRun ==
    /\ localfs = {}
    /\ pc = "while"
    /\ date = start
    /\ results = <<>>
    /\ hf_files = <<>>
    /\ day_results = <<>>
    /\ idx = 0
    /\ downloaded_path = NoPath
    /\ converted_path = NoPath
    /\ key_present = FALSE
    /\ temp_dir = "none"
    /\ key_log = <<>>
    /\ calls = <<>>
    /\ raised = "none"
    /\ listed = <<>>
    /\ visited = <<>>
    /\ run = 1
    /\ prev_ok = {}

Init ==
    /\ force \in BOOLEAN
    /\ dryrun \in BOOLEAN
    /\ local_root \in LocalRoots
    /\ start \in Dates
    /\ end \in Dates
    /\ catalog \in [Dates -> Listings]
    /\ \A dt \in Dates : ~InRange(start, end, dt) => catalog[dt] = <<>>
    /\ store \in SUBSET KeysOf(start, end, catalog)
    /\ grid \in PipelineGrids
    /\ InitRun

\* The file the for loop is at.
remote_path == hf_files[idx]
filename == remote_path.name
local_original == LocalPath(local_root, date, filename)
converted_s3_key == S3Key(date, filename)

Outcome(status) == [status |-> status, date |-> date, filename |-> filename]

\* (a variant of Record: the failure of a stage is not caught and leaves the
\* loop, the day and the run)
RecordUncaught(status) ==
    IF status \in {"FAILED-DOWNLOAD", "FAILED-CONVERT", "FAILED-UPLOAD"}
    THEN pc' = "aborted" /\ day_results' = day_results
    ELSE day_results' = Append(day_results, Outcome(status)) /\ pc' = "for"

\* results.append(...); continue
Record(status) ==
    /\ day_results' = Append(day_results, Outcome(status))
    /\ pc' = "for"

\* an exception nothing catches: it leaves process_single_day and run_pipeline
Raise(call) ==
    /\ pc' = "aborted"
    /\ raised' = call

\* (a variant of ReturnDay: the day's outcomes are put in front of the report)
ReturnDayInFront(outcomes) ==
    /\ results' = outcomes \o results
    /\ date' = NextDay(date)
    /\ pc' = "while"

\* return results / return []; then results.extend(day_results); date += 1 day
ReturnDay(outcomes) ==
    /\ results' = results \o outcomes
    /\ date' = NextDay(date)
    /\ pc' = "while"

----------------------------------------------------------------------------
\* Every collaborator call is logged as <<call, response>>.
Called(call) == \E k \in 1..Len(calls) : calls[k][1] = call

\* run_pipeline: while date <= end, call process_single_day; its first step
\* is the listing.  An empty listing returns [] at once.
ProcessSingleDay ==
    /\ pc = "while"
    /\ DateLE(date, end)
    /\ visited' = Append(visited, date)
    /\ \E resp \in ListResponses :
         LET r == ListHfFilesForDate(date, resp)
         IN  /\ calls' = <<<<"list_repo_tree", resp>>>>
             /\ IF r.raise
                THEN /\ Raise("list_repo_tree")
                     /\ UNCHANGED <<results, date, hf_files, listed>>
                ELSE /\ hf_files' = r.files
                     /\ listed' = listed \o r.files
                     /\ raised' = raised
                     /\ IF r.files = <<>>
                        THEN ReturnDay(<<>>)
                        ELSE pc' = "for" /\ UNCHANGED <<results, date>>
    /\ day_results' = <<>>
    /\ idx' = 0
    /\ UNCHANGED <<config, store, localfs, fileVars, key_present, temp_dir,
                   key_log, run, prev_ok>>

\* for remote_path in hf_files: the next file's paths and os.makedirs
NextFile ==
    /\ pc = "for"
    /\ idx < Len(hf_files)
    /\ idx' = idx + 1
    /\ downloaded_path' = NoPath
    /\ converted_path' = NoPath
    /\ key_present' = (S3Key(date, hf_files[idx + 1].name) \in store)
    /\ temp_dir' = "none"
    /\ key_log' = <<>>
    /\ \E resp \in {"ok", "raise"} :
         /\ calls' = <<<<"makedirs", resp>>>>
         /\ IF resp = "ok"
            THEN pc' = "exists" /\ raised' = raised
            ELSE Raise("makedirs")
    /\ UNCHANGED <<config, store, localfs, date, results, hf_files, day_results,
                   listed, visited, run, prev_ok>>

\* the for loop is exhausted: return results, back in run_pipeline
EndOfDay ==
    /\ pc = "for"
    /\ idx = Len(hf_files)
    /\ ReturnDay(day_results)
    /\ UNCHANGED <<config, store, localfs, hf_files, day_results, idx, fileVars,
                   key_present, temp_dir, key_log, calls, raised, listed, visited,
                   run, prev_ok>>

\* 2. Skip if this file is already converted and uploaded
CheckExists ==
    /\ pc = "exists"
    /\ IF ConsultsStore(force)
       THEN \E resp \in HeadResponses(store, converted_s3_key) :
              /\ calls' = Append(calls, <<"head_object", resp>>)
              /\ key_log' = Append(key_log, <<"head_object", converted_s3_key>>)
              /\ CASE S3KeyExists(resp) = "true" ->
                        Record("SKIPPED") /\ raised' = raised
                   [] S3KeyExists(resp) = "false" ->
                        pc' = "download" /\ UNCHANGED <<day_results, raised>>
                   [] OTHER ->
                        Raise("head_object") /\ UNCHANGED day_results
       ELSE /\ pc' = "download"
            /\ UNCHANGED <<calls, key_log, day_results, raised>>
    /\ UNCHANGED <<config, store, localfs, date, results, hf_files, idx,
                   fileVars, key_present, temp_dir, listed, visited, run, prev_ok>>

\* 3. Download: hf_hub_download, or the dry-run stand-in (an empty file at
\* local_original)
Download ==
    /\ pc = "download"
    /\ \E resp \in {"ok", "raise"} :
         /\ calls' = Append(calls,
                <<IF RealFetch(dryrun) THEN "hf_hub_download" ELSE "open_w", resp>>)
         /\ IF ~StageFailed(resp)
            THEN /\ downloaded_path' =
                      (IF RealFetch(dryrun) THEN DownloadPath(remote_path)
                       ELSE local_original)
                 /\ localfs' = WriteFile(localfs, downloaded_path',
                                IF RealFetch(dryrun) THEN "archive" ELSE "empty")
                 /\ pc' = "convert"
                 /\ UNCHANGED day_results
            ELSE /\ Record("FAILED-DOWNLOAD")
                 /\ UNCHANGED <<downloaded_path, localfs>>
    /\ UNCHANGED <<config, store, date, results, hf_files, idx, converted_path,
                   key_present, temp_dir, key_log, raised, listed, visited, run,
                   prev_ok>>

\* 4. Convert: converter.extract(downloaded_path)
Convert ==
    /\ pc = "convert"
    /\ \E env \in ExtractEnvs :
         LET r == Extract(ContentOf(localfs, downloaded_path), grid, env)
         IN  /\ calls' = Append(calls, <<"extract", r.resp>>)
             /\ temp_dir' = r.temp_dir
             /\ IF ~StageFailed(r.resp)
                THEN /\ converted_path' = OutputPath(downloaded_path)
                     /\ localfs' = WriteFile(localfs, converted_path', "netcdf")
                     /\ pc' = "upload"
                     /\ UNCHANGED day_results
                ELSE /\ Record("FAILED-CONVERT")
                     /\ UNCHANGED <<converted_path, localfs>>
    /\ UNCHANGED <<config, store, date, results, hf_files, idx, downloaded_path,
                   key_present, key_log, raised, listed, visited, run, prev_ok>>

\* 5. Upload: upload_to_s3, skipped in a dry run
Upload ==
    /\ pc = "upload"
    /\ IF RealStore(dryrun)
       THEN \E resp \in {"ok", "raise"} :
              /\ calls' = Append(calls, <<"upload_file", resp>>)
              /\ key_log' = Append(key_log, <<"upload_file", converted_s3_key>>)
              /\ IF ~StageFailed(resp)
                 THEN /\ store' = PutObject(store, converted_s3_key)
                      /\ pc' = "cleanup"
                      /\ UNCHANGED day_results
                 ELSE /\ Record("FAILED-UPLOAD")
                      /\ UNCHANGED store
       ELSE /\ pc' = "cleanup"
            /\ UNCHANGED <<calls, key_log, store, day_results>>
    /\ UNCHANGED <<config, localfs, date, results, hf_files, idx, fileVars,
                   key_present, temp_dir, raised, listed, visited, run, prev_ok>>

\* os.remove(path): FileNotFoundError when there is no such file, and it can
\* fail on a file that is there (PermissionError)
RemoveResponses(fs, path) == IF Exists(fs, path) THEN {"ok", "raise"} ELSE {"raise"}

\* 6. Cleanup: os.remove(local_original), OSError ignored; then OK
Cleanup ==
    /\ pc = "cleanup"
    /\ \E resp \in RemoveResponses(localfs, local_original) :
         /\ calls' = Append(calls, <<"remove", resp>>)
         /\ localfs' = IF resp = "ok" THEN RemoveFile(localfs, local_original)
                       ELSE localfs
         /\ IF resp = "ok" \/ CatchesOSError(resp)
            THEN Record("OK") /\ raised' = raised
            ELSE Raise("remove") /\ UNCHANGED day_results
    /\ UNCHANGED <<config, store, date, results, hf_files, idx, fileVars,
                   key_present, temp_dir, key_log, listed, visited, run, prev_ok>>

\* the while loop is over: print the summary
Summary ==
    /\ pc = "while"
    /\ ~DateLE(date, end)
    /\ pc' = "summary"
    /\ UNCHANGED <<config, store, localfs, date, results, hf_files, day_results,
                   idx, fileVars, key_present, temp_dir, key_log, calls, raised,
                   listed, visited, run, prev_ok>>

OkFiles(report) ==
    {[date |-> report[k].date, filename |-> report[k].filename] :
        k \in {j \in 1..Len(report) : report[j].status = "OK"}}

\* run_pipeline is called again with the same arguments
RunAgain ==
    /\ pc = "summary"
    /\ run < MaxRuns
    /\ run' = run + 1
    /\ prev_ok' = OkFiles(results)
    /\ pc' = "while"
    /\ date' = start
    /\ results' = <<>>
    /\ hf_files' = <<>>
    /\ day_results' = <<>>
    /\ idx' = 0
    /\ downloaded_path' = NoPath
    /\ converted_path' = NoPath
    /\ key_present' = FALSE
    /\ temp_dir' = "none"
    /\ key_log' = <<>>
    /\ calls' = <<>>
    /\ listed' = <<>>
    /\ visited' = <<>>
    /\ UNCHANGED <<config, store, localfs, raised>>

\* One run of run_pipeline, from a fresh staging directory.
Next ==
    \/ ProcessSingleDay
    \/ NextFile
    \/ EndOfDay
    \/ CheckExists
    \/ Download
    \/ Convert
    \/ Upload
    \/ Cleanup
    \/ Summary

Spec == Init /\ [][Next]_vars

\* Consecutive runs with one configuration, over the store and the staging
\* directory the earlier runs left, for catalogs of at most MaxRerunFiles
\* archives in the range.
ArchivesInRange ==
    UNION {{<<dt, k>> : k \in {j \in 1..Len(catalog[dt]) : IsArchive(catalog[dt][j])}} :
           dt \in {x \in Dates : InRange(start, end, x)}}

InitTwice == Init /\ Cardinality(ArchivesInRange) <= MaxRerunFiles

NextTwice == Next \/ RunAgain

SpecTwice == InitTwice /\ [][NextTwice]_vars

\* One run over one day holding one archive, for every grid the archive can
\* hold: the converter on all its inputs.
OneArchive == <<[stem |-> 1, ext |-> ArchiveExt]>>

InitExtract ==
    /\ force \in BOOLEAN
    /\ dryrun \in BOOLEAN
    /\ local_root \in LocalRoots
    /\ start = FirstDate
    /\ end = FirstDate
    /\ catalog = [dt \in Dates |-> IF dt = FirstDate THEN OneArchive ELSE <<>>]
    /\ store = {}
    /\ grid \in Grids
    /\ InitRun

SpecExtract == InitExtract /\ [][Next]_vars

----------------------------------------------------------------------------
\* Vocabulary of the properties.

Statuses == {"OK", "SKIPPED", "FAILED-DOWNLOAD", "FAILED-CONVERT", "FAILED-UPLOAD"}

\* The for loop is at a file: remote_path, filename and the keys are its.
InFile ==
    idx >= 1 /\ pc \in {"exists", "download", "convert", "upload", "cleanup", "for"}

\* The file's outcome has just been appended (the loop is back at its top).
FileDone == pc = "for" /\ idx >= 1

LastOutcome == day_results[Len(day_results)]

\* The fetch (or its dry-run stand-in), the converter and the store.
StageCalls == {"hf_hub_download", "open_w", "extract", "upload_file"}

NoStageCall == \A k \in 1..Len(calls) : calls[k][1] \notin StageCalls

\* calls[k] is preceded by a successful call of one of `ops`
After(k, ops) == \E j \in 1..(k - 1) : calls[j][1] \in ops /\ calls[j][2] = "ok"

----------------------------------------------------------------------------
\* C1: with force=false, a file whose destination key is already in the store
\* gets exactly SKIPPED, and no fetch, converter or store call is made for it.
\* (Violated: head_object answering with a ClientError other than 404 makes
\* s3_key_exists return False, and the file is fetched again.)
C1_ExistingKeySkipped ==
    (~force /\ InFile /\ key_present) =>
        /\ NoStageCall
        /\ FileDone => LastOutcome.status = "SKIPPED"

\* C2: with force=true head_object is never called, and no file is skipped:
\* each file with an outcome went through the fetch stage, through the
\* converter unless the fetch failed, and through the store unless an earlier
\* stage failed, whether or not its key was already in the store.
C2_ForceRunsAllStages ==
    force =>
        /\ ~Called("head_object")
        /\ FileDone =>
             /\ LastOutcome.status # "SKIPPED"
             /\ Called("hf_hub_download") \/ Called("open_w")
             /\ LastOutcome.status # "FAILED-DOWNLOAD" => Called("extract")
             /\ (LastOutcome.status \in {"OK", "FAILED-UPLOAD"} /\ ~dryrun)
                    => Called("upload_file")

\* C2 witness: force=true, the key was already stored, and the file went
\* through fetch, convert and store to OK.
C2_Witness ==
    /\ force /\ FileDone /\ key_present
    /\ LastOutcome.status = "OK"
    /\ Called("hf_hub_download") /\ Called("extract") /\ Called("upload_file")

\* C3: in a second run with the same configuration and force=false, every
\* file whose outcome was OK in the first run is SKIPPED, with no fetch,
\* convert or store.  (Violated, as C1 is: the second run's head_object can
\* answer 403 for a key that is there.)
C3_SecondRunSkips ==
    (run >= 2 /\ ~force /\ InFile
        /\ [date |-> date, filename |-> filename] \in prev_ok) =>
        /\ NoStageCall
        /\ FileDone => LastOutcome.status = "SKIPPED"

\* C4: no failure of a download, a conversion or an upload leaves the loop:
\* an exception that ends the run comes from another call; each file the loop
\* has been at has one outcome; and the report of a run that reached its
\* summary is as long as the listings of the whole range.
C4_FailureIsolation ==
    /\ pc = "aborted" =>
          calls[Len(calls)][1] \in {"list_repo_tree", "makedirs", "head_object"}
    /\ pc = "for" => Len(day_results) = idx
    /\ pc = "summary" => Len(results) = Len(listed)

\* C4 witness: a report that starts with a failed download, goes on with a
\* failed conversion on the same day and a failed upload on a later day.
C4_Witness ==
    /\ pc = "summary" /\ Len(results) >= 3
    /\ results[1].status = "FAILED-DOWNLOAD"
    /\ results[2].status = "FAILED-CONVERT"
    /\ results[3].status = "FAILED-UPLOAD"
    /\ results[1].date = results[2].date
    /\ results[3].date # results[1].date

\* C5: when the run is over, every listed file has exactly one outcome, of
\* the closed set of statuses, and a date without entries has none.
\* (Violated: an exception of os.makedirs, of head_object or of the listing's
\* iteration ends the run, and the listed files have no outcome; see C10.)
C5_OneOutcomePerListedFile ==
    pc \in {"summary", "aborted"} =>
        /\ Len(results) = Len(listed)
        /\ \A k \in 1..Len(results) :
             /\ results[k].status \in Statuses
             /\ RemotePath(results[k].date, results[k].filename) = listed[k]

\* C6: stages are ordered per file: extract only after a successful fetch,
\* upload only after a successful extract, the removal and OK only after a
\* successful upload (in a dry run, which has no upload: after the extract);
\* after FAILED-DOWNLOAD nothing was converted or stored, after
\* FAILED-CONVERT nothing was stored.
C6_StagesOrdered ==
    /\ \A k \in 1..Len(calls) :
         /\ calls[k][1] = "extract" => After(k, {"hf_hub_download", "open_w"})
         /\ calls[k][1] = "upload_file" => After(k, {"extract"})
         /\ calls[k][1] = "remove" =>
              After(k, IF dryrun THEN {"extract"} ELSE {"upload_file"})
    /\ FileDone =>
         /\ LastOutcome.status = "OK" => Called("remove")
         /\ LastOutcome.status = "FAILED-DOWNLOAD" =>
              /\ ~Called("extract") /\ ~Called("upload_file")
              /\ converted_path = NoPath
         /\ LastOutcome.status = "FAILED-CONVERT" =>
              ~Called("upload_file") /\ converted_path = NoPath

\* C6 witness: a file that went through every stage to OK.
C6_Witness ==
    /\ FileDone /\ LastOutcome.status = "OK"
    /\ calls = <<<<"makedirs", "ok">>, <<"head_object", "404">>,
                 <<"hf_hub_download", "ok">>, <<"extract", "ok">>,
                 <<"upload_file", "ok">>, <<"remove", "ok">>>>

\* position of a file name in a folder's entries
PosIn(entries, name) == CHOOSE k \in 1..Len(entries) : entries[k] = name

\* outcome a comes before outcome b: earlier date, or same date and listed first
Before(a, b) ==
    \/ a.date # b.date /\ DateLE(a.date, b.date)
    \/ /\ a.date = b.date
       /\ PosIn(catalog[a.date], a.filename) < PosIn(catalog[b.date], b.filename)

\* C7: the report is in ascending date order and, within a date, in the
\* catalog's order; at the summary it is the listings of the range, in order.
C7_ReportOrdered ==
    /\ \A i, j \in 1..Len(results) : i < j => Before(results[i], results[j])
    /\ pc = "summary" =>
         /\ Len(results) = Len(listed)
         /\ \A k \in 1..Len(results) :
              RemotePath(results[k].date, results[k].filename) = listed[k]

\* C7 witness: a summary with OK and SKIPPED on one date, then a failure on
\* the next.
C7_Witness ==
    /\ pc = "summary" /\ Len(results) >= 3
    /\ results[1].status = "OK"
    /\ results[2].status = "SKIPPED"
    /\ results[3].status = "FAILED-CONVERT"
    /\ results[1].date = results[2].date
    /\ results[3].date # results[1].date

\* C8: a listing that fails, when requested or while its entries are read,
\* gives an empty listing and the run goes on.  (Violated: an exception
\* raised while the entries are read is outside the try and ends the run.)
C8_ListingFailureIsEmpty ==
    (Len(calls) = 1 /\ calls[1][1] = "list_repo_tree" /\ calls[1][2] # "ok") =>
        pc \in {"while", "summary"} /\ hf_files = <<>>

\* C9: the existence check says false only for "not found"; a transport or
\* authentication failure is raised to the caller.  (Violated: a ClientError
\* with status 403 gives False, and the file goes to the download stage.)
C9_FailureIsNotFalse ==
    \A k \in 1..Len(calls) :
        calls[k][1] = "head_object" =>
            /\ calls[k][2] \in {"403", "unreachable"} =>
                 pc = "aborted" /\ raised = "head_object"
            /\ (InFile /\ pc # "exists" /\ ~FileDone) => calls[k][2] = "404"

\* C10: no error of any collaborator ends the run before its summary.
\* (Violated: os.makedirs, head_object with an error that is no ClientError,
\* and the iteration of the listing are outside every try.)
C10_NoErrorAbortsTheRange == pc # "aborted"

\* What the convert stage can come to on a file of the given content: the
\* failure outcome, or the file goes on to the store stage.
ConvertOutcomes(content) ==
    {IF StageFailed(resp) THEN "FAILED-CONVERT" ELSE "upload" :
        resp \in ExtractResponses(content)}

\* C11: a dry run goes through the stages of a real run and can reach the
\* outcomes a real run can, OK included: at the convert stage, the file the
\* dry-run stand-in left can come to whatever a fetched archive can come to.
\* (Violated: the stand-in is an empty file, which zipfile.ZipFile rejects, so
\* a dry run's file always ends FAILED-CONVERT and never reaches the store
\* stand-in, the cleanup or OK.)
C11_DryRunReachesSameOutcomes ==
    (dryrun /\ pc = "convert") =>
        ConvertOutcomes(ContentOf(localfs, downloaded_path))
            = ConvertOutcomes("archive")

\* C12: in a dry run hf_hub_download and upload_file are never called, and
\* no step changes the destination store.
C12_DryRunNoRealTransfer ==
    /\ [](dryrun => ~Called("hf_hub_download") /\ ~Called("upload_file"))
    /\ [][dryrun => store' = store]_vars

\* C12 witness: a dry-run file whose stand-in was written and handed to the
\* converter, with its key absent from the store.
C12_Witness ==
    /\ dryrun /\ FileDone /\ ~key_present
    /\ Called("open_w") /\ Called("extract")
    /\ converted_s3_key \notin store

\* a number below 100 written with two digits
TwoDigits(n) == <<n \div 10, n % 10>>

\* <prefix>/<year>/<month, two digits>/<day, two digits>/<stem>.nc
KeyLayout(dt, name) ==
    [prefix |-> "s3_prefix",
     dir |-> <<Digits(dt.y), TwoDigits(dt.m), TwoDigits(dt.d)>>,
     name |-> [stem |-> name.stem, ext |-> ".nc"]]

\* C13: the destination key of a file is <prefix>/<year>/<zero-padded
\* month>/<zero-padded day>/<filename with .zarr.zip replaced by .nc>, and the
\* key head_object is asked about and the key upload_file writes to are that
\* one key.
C13_KeyLayoutAndAgreement ==
    InFile =>
        /\ converted_s3_key = KeyLayout(date, filename)
        /\ \A k \in 1..Len(key_log) : key_log[k][2] = KeyLayout(date, filename)

\* C13 witness: a file of a one-digit day whose key was consulted and then
\* written, and is in the store.
C13_Witness ==
    /\ FileDone /\ date.d < 10 /\ LastOutcome.status = "OK"
    /\ Len(key_log) = 2
    /\ key_log[1][1] = "head_object" /\ key_log[2][1] = "upload_file"
    /\ KeyLayout(date, filename) \in store

\* The window the converter selects from the archive's grid has no point on
\* one of its axes.
ZeroExtent ==
    Len(SelectLatitude(grid.lat)) = 0 \/ Len(SelectLongitude(grid.lon)) = 0

\* C14: when the selected window has zero extent on the latitude or on the
\* longitude axis, the converter raises without writing an output file, the
\* file's outcome is FAILED-CONVERT, and nothing is stored for it.
C14_EmptyWindowFailsConvert ==
    (InFile /\ Called("extract") /\ ZeroExtent) =>
        /\ FileDone /\ LastOutcome.status = "FAILED-CONVERT"
        /\ converted_path = NoPath
        /\ ~Exists(localfs, OutputPath(downloaded_path))
        /\ ~Called("upload_file")
        /\ converted_s3_key \notin store

\* C14 witness: a real run's archive opened by the converter, with points
\* inside the latitude window and none inside the longitude window.
C14_Witness ==
    /\ FileDone /\ ~dryrun
    /\ calls[Len(calls)] = <<"extract", "empty_subset">>
    /\ Len(SelectLatitude(grid.lat)) > 0
    /\ Len(SelectLongitude(grid.lon)) = 0
    /\ LastOutcome.status = "FAILED-CONVERT"

\* C15: in a real run the fetched file is placed at, converted from and
\* removed at <local_root>/<year>/<month>/<day>/<filename>, so that after OK
\* with a successful removal the fetched file is gone.  (Violated:
\* hf_hub_download is given local_dir="./", not local_root, and places the
\* file at ./data/<year>/<month>/<day>/<filename>; with another local_root
\* the converter reads there, the removal of local_original finds no file,
\* and the fetched file stays.)
C15_OnePathForFetchConvertCleanup ==
    (~dryrun /\ InFile /\ downloaded_path # NoPath) =>
        /\ downloaded_path = local_original
        /\ (FileDone /\ calls[Len(calls)] = <<"remove", "ok">>) =>
              ~Exists(localfs, downloaded_path)

\* C16: no side effect is rolled back: after FAILED-CONVERT the fetched file
\* is still there, after FAILED-UPLOAD the fetched and the converted file are
\* still there, and no step removes a key from the store.
C16_NoRollback ==
    /\ [](FileDone =>
            /\ LastOutcome.status = "FAILED-CONVERT" =>
                 Exists(localfs, downloaded_path)
            /\ LastOutcome.status = "FAILED-UPLOAD" =>
                 /\ Exists(localfs, downloaded_path)
                 /\ Exists(localfs, converted_path))
    /\ [][store \subseteq store']_vars

\* C16 witness: an upload failed for a file whose earlier artifact is in the
\* store: the artifact, the fetched file and the converted file are there.
C16_Witness ==
    /\ FileDone /\ force /\ key_present
    /\ LastOutcome.status = "FAILED-UPLOAD"
    /\ converted_s3_key \in store
    /\ Exists(localfs, downloaded_path) /\ Exists(localfs, converted_path)

\* C17: when os.remove fails after the store stage, the error is swallowed:
\* the run is not ended, the file's outcome is OK, and the loop goes on.
C17_CleanupBestEffort ==
    (Len(calls) > 0 /\ calls[Len(calls)] = <<"remove", "raise">>) =>
        /\ pc \in {"for", "while", "summary"}
        /\ pc = "for" => Len(day_results) = idx /\ LastOutcome.status = "OK"
        /\ pc # "for" => results[Len(results)].status = "OK"

\* C17 witness: the upload succeeded, the removal of a file that is there
\* failed, the outcome is OK and the day has another file to go on with.
C17_Witness ==
    /\ FileDone /\ idx < Len(hf_files)
    /\ \E k \in 1..Len(calls) : calls[k] = <<"upload_file", "ok">>
    /\ calls[Len(calls)] = <<"remove", "raise">>
    /\ Exists(localfs, local_original)
    /\ LastOutcome.status = "OK"

\* the calendar days of the closed interval [a, b], in ascending order
RECURSIVE DaysOf(_, _)
DaysOf(a, b) == IF DateLE(a, b) THEN <<a>> \o DaysOf(NextDay(a), b) ELSE <<>>

\* C19: when run_pipeline is over, process_single_day has been invoked once
\* for each day of [start, end], in ascending order; for start > end no day
\* is processed and the report is empty.  (Violated: an exception that
\* leaves process_single_day ends the run before the later days; see C10.)
C19_EveryDayOnceInOrder ==
    pc \in {"summary", "aborted"} =>
        /\ visited = DaysOf(start, end)
        /\ ~DateLE(start, end) => results = <<>>

\* C18 as stated: the temporary directory one call of converter.extract
\* created no longer exists when the call ends, however it ends.  (Violated:
\* shutil.rmtree is called with ignore_errors=True; when the removal fails the
\* directory is left and the call ends as it would have.)
C18_TempDirGone ==
    \A k \in 1..Len(calls) :
        calls[k][1] = "extract" => temp_dir \in {"none", "removed"}

\* C18, amended: on every way out of converter.extract after mkdtemp
\* (return, unreadable archive, open failure, empty subset, write failure)
\* shutil.rmtree is called on the temporary directory, and the directory is
\* gone when the call ends unless that removal itself failed; a call whose
\* mkdtemp failed created none.
C18_TempDirRemovedUnlessRmtreeFails ==
    \A k \in 1..Len(calls) :
        calls[k][1] = "extract" =>
            IF calls[k][2] = "mkdtemp_failed"
            THEN temp_dir = "none"
            ELSE temp_dir \in {"removed", "rmtree_failed"}

\* C18 witness: the converter raised on an empty subset and its temporary
\* directory was removed.
C18_Witness ==
    /\ FileDone
    /\ calls[Len(calls)] = <<"extract", "empty_subset">>
    /\ temp_dir = "removed"

Range(s) == {s[k] : k \in 1..Len(s)}

\* the points of an axis inside the latitude window, edges included
InLatWindow(lat) == {x \in Range(lat) : lat_min <= x /\ x <= lat_max}

\* C20: whatever the latitude axis, rising or falling, the points the
\* converter selects are exactly those with 45.7 <= latitude <= 46.4, the
\* same set for the axis and for the same points in the other order.
\* (Violated: on an axis of one point values[0] < values[-1] is false, the
\* window is sliced from 46.4 down to 45.7 on an index pandas takes as
\* rising, and a point inside the window is not selected.)
C20_OrientationCorrect ==
    (\E k \in 1..Len(calls) :
        calls[k][1] = "extract"
        /\ calls[k][2] \in {"ok", "write_failed", "empty_subset"}) =>
        /\ Range(SelectLatitude(grid.lat)) = InLatWindow(grid.lat)
        /\ Range(SelectLatitude(Reverse(grid.lat))) = InLatWindow(grid.lat)

====
